---- MODULE Spec2Model ----
(***************************************************************************)
(* Model of .config/ignis/modules/control_center/media.py: the Player      *)
(* revealer (one card per MPRIS player), its theming refresh load_colors,  *)
(* its deferred destruction, and the media() container that creates one    *)
(* Player per "player_added" signal.                                       *)
(*                                                                         *)
(* Everything runs on one GLib main loop: a signal handler runs to         *)
(* completion before the next event is dispatched.  The add_player handler *)
(* is split into its four statements (pc records the position) so that the *)
(* order of theming, construction, append and reveal is observable; no     *)
(* other event is dispatched while pc is not idle.                         *)
(*                                                                         *)
(* Strings are sequences of one-character strings so that f-string         *)
(* formatting and the "in" substring test are computed, not assumed.       *)
(***************************************************************************)
EXTENDS Integers, Sequences, FiniteSets, TLC

\* ------------------------------------------------------------------ bounds
\* Player objects (cards) created in one run.
MaxCards == 2
\* The revealer's transition_duration, in clock ticks.
TransitionDuration == 2
\* "notify::art-url" emissions in one run.
MaxArtEvents == 2

\* ------------------------------------------------------------- strings
RECURSIVE IsPrefix(_, _)
IsPrefix(p, s) ==
    IF p = <<>> THEN TRUE
    ELSE IF s = <<>> THEN FALSE
    ELSE Head(p) = Head(s) /\ IsPrefix(Tail(p), Tail(s))

\* Python's `needle in haystack` for str.
RECURSIVE Contains(_, _)
Contains(needle, haystack) ==
    IF IsPrefix(needle, haystack) THEN TRUE
    ELSE IF haystack = <<>> THEN FALSE
    ELSE Contains(needle, Tail(haystack))

firefox == <<"f","i","r","e","f","o","x">>
spotify == <<"s","p","o","t","i","f","y">>
chrome == <<"c","h","r","o","m","e">>
chromium == <<"c","h","r","o","m","i","u","m">>
mpv == <<"m","p","v">>

\* desktop_entry values the MPRIS service reports in this model.
DesktopEntries == {firefox, spotify, mpv, chromium}

\* track_id values (D-Bus object paths) the MPRIS service reports.
TrackPlain == <<"/","t","/","1">>
TrackChrome == <<"/","o","r","g","/">> \o chrome \o <<"/","2">>
TrackChromium == <<"/","o","r","g","/">> \o chromium \o <<"/","3">>
TrackIds == {TrackPlain, TrackChrome, TrackChromium}

\* art_url values: None, a readable image, one unreadable image.
NoArt == "None"
ArtUrls == {NoArt, "art-a.png", "corrupt.png"}

\* ----------------------------------------------------- module constants
\* MEDIA_ART_FALLBACK: the fixed fallback image (readable).
MEDIA_ART_FALLBACK == "media-art-fallback.png"
\* MEDIA_SCSS_CACHE_DIR = f"{ignis.CACHE_DIR}/media"; CACHE_DIR is one token.
MEDIA_SCSS_CACHE_DIR == <<"$CACHE_DIR", "/", "m","e","d","i","a">>
\* PLAYER_ICONS, keyed by name; "none" is the None key.
PLAYER_ICONS ==
    [spotify |-> "glyph-spotify", firefox |-> "glyph-firefox",
     chrome |-> "glyph-chrome", none |-> ""]

\* The MPRIS players of the run, and the values their properties take.
Sources == {1, 2}
Positions == {-1, 0, 42}
Lengths == {-1, 180}
Statuses == {"Playing", "Paused"}

\* ------------------------------------------------------------ pure parts
\* self._colors_path = f"{MEDIA_SCSS_CACHE_DIR}/{desktop_entry}.scss"
\* Variant: the desktop entry left out of the file name.
ColorsPathNoDir(desktop_entry) == MEDIA_SCSS_CACHE_DIR \o <<"/">> \o <<".","s","c","s","s">>
\* As in the source.
ColorsPath(desktop_entry) ==
    MEDIA_SCSS_CACHE_DIR \o <<"/">> \o desktop_entry \o <<".","s","c","s","s">>

Paths == {ColorsPath(d) : d \in DesktopEntries}

\* Player.get_player_icon.  Variant: the substring tests made on the
\* desktop entry instead of the track identifier.
GetPlayerIconByEntry(desktop_entry, track_id) ==
    IF desktop_entry = firefox THEN PLAYER_ICONS.firefox
    ELSE IF desktop_entry = spotify THEN PLAYER_ICONS.spotify
    ELSE IF Contains(chromium, desktop_entry) \/ Contains(chrome, desktop_entry)
         THEN PLAYER_ICONS.chrome
    ELSE PLAYER_ICONS.none
\* As in the source.
GetPlayerIcon(desktop_entry, track_id) ==
    IF desktop_entry = firefox THEN PLAYER_ICONS.firefox
    ELSE IF desktop_entry = spotify THEN PLAYER_ICONS.spotify
    ELSE IF Contains(chromium, track_id) \/ Contains(chrome, track_id)
         THEN PLAYER_ICONS.chrome
    ELSE PLAYER_ICONS.none

\* visible=player.bind("position", lambda value: value != -1)
\* Variant: value > 0.
ScaleVisiblePositive(value) == value > 0
ScaleVisible(value) == value # -1

\* material.get_colors_from_img(art_url, True): a palette, or the image
\* loader's exception when the image cannot be read.
GetColorsFromImg(art_url) ==
    IF art_url = "corrupt.png"
    THEN [raised |-> "ImageError", colors |-> <<>>]
    ELSE [raised |-> "none", colors |-> <<"palette-of", art_url>>]

\* material.render_template(colors, MEDIA_TEMPLATE, output_file): the
\* stylesheet text, a function of the mapping handed to the template.
RenderTemplate(colors, art_url, desktop_entry) ==
    [palette |-> colors, art_url |-> art_url, desktop_entry |-> desktop_entry]

\* app.remove_css(path): drops the registrations of path; raises
\* StylePathNotFoundError when the path has none.
RemoveCss(reg, path) ==
    IF reg[path] = <<>>
    THEN [raised |-> "StylePathNotFoundError", reg |-> reg]
    ELSE [raised |-> "none", reg |-> [reg EXCEPT ![path] = <<>>]]

\* app.apply_css(path): registers the stylesheet now at path.
ApplyCss(reg, path, css) == [reg EXCEPT ![path] = Append(@, css)]

\* Player.load_colors, for a card with player record p, on registry reg and
\* cache files fs.  The result carries what the run did: whether remove_css
\* raised (and was swallowed), and the exception that left the method.
\* Variant: no remove_css before the apply.
LoadColorsNoRemove(p, path, reg, fs) ==
    LET art_url == IF p.art_url = NoArt THEN MEDIA_ART_FALLBACK ELSE p.art_url
        pal == GetColorsFromImg(art_url)
        css == RenderTemplate(pal.colors, art_url, p.desktop_entry)
    IN  IF pal.raised # "none"
        THEN [reg |-> reg, fs |-> fs, swallowed |-> FALSE, raised |-> pal.raised]
        ELSE [reg |-> ApplyCss(reg, path, css),
              fs |-> [fs EXCEPT ![path] = css],
              swallowed |-> FALSE, raised |-> "none"]
\* Variant: StylePathNotFoundError not caught.
LoadColorsNoCatch(p, path, reg, fs) ==
    LET art_url == IF p.art_url = NoArt THEN MEDIA_ART_FALLBACK ELSE p.art_url
        rm == RemoveCss(reg, path)
        pal == GetColorsFromImg(art_url)
        css == RenderTemplate(pal.colors, art_url, p.desktop_entry)
    IN  IF rm.raised # "none"
        THEN [reg |-> rm.reg, fs |-> fs, swallowed |-> FALSE, raised |-> rm.raised]
        ELSE IF pal.raised # "none"
        THEN [reg |-> rm.reg, fs |-> fs, swallowed |-> FALSE, raised |-> pal.raised]
        ELSE [reg |-> ApplyCss(rm.reg, path, css),
              fs |-> [fs EXCEPT ![path] = css],
              swallowed |-> FALSE, raised |-> "none"]
\* Variant: a failed extraction puts the removed registration back.
LoadColorsRestoring(p, path, reg, fs) ==
    LET art_url == IF p.art_url = NoArt THEN MEDIA_ART_FALLBACK ELSE p.art_url
        rm == RemoveCss(reg, path)
        pal == GetColorsFromImg(art_url)
        css == RenderTemplate(pal.colors, art_url, p.desktop_entry)
    IN  IF pal.raised # "none"
        THEN [reg |-> reg, fs |-> fs,
              swallowed |-> rm.raised = "StylePathNotFoundError",
              raised |-> pal.raised]
        ELSE [reg |-> ApplyCss(rm.reg, path, css),
              fs |-> [fs EXCEPT ![path] = css],
              swallowed |-> rm.raised = "StylePathNotFoundError",
              raised |-> "none"]
\* As in the source, lines 176-193.
LoadColors(p, path, reg, fs) ==
    LET art_url == IF p.art_url = NoArt THEN MEDIA_ART_FALLBACK ELSE p.art_url
        rm == RemoveCss(reg, path)
        pal == GetColorsFromImg(art_url)
        css == RenderTemplate(pal.colors, art_url, p.desktop_entry)
    IN  IF pal.raised # "none"
        THEN [reg |-> rm.reg, fs |-> fs,
              swallowed |-> rm.raised = "StylePathNotFoundError",
              raised |-> pal.raised]
        ELSE [reg |-> ApplyCss(rm.reg, path, css),
              fs |-> [fs EXCEPT ![path] = css],
              swallowed |-> rm.raised = "StylePathNotFoundError",
              raised |-> "none"]

\* ----------------------------------------------------------------- state
VARIABLES
    players,    \* the MprisPlayer objects: their properties, per source
    cards,      \* the Player objects created so far, in creation order
    registry,   \* app's stylesheet registry: path -> applied stylesheets
    files,      \* the cache directory: path -> rendered stylesheet
    pc,         \* position inside the running add_player handler
    appeared,   \* "player_added" signals delivered to the container
    appended,   \* box.append calls made by the container
    art_events, \* "notify::art-url" signals emitted so far
    theming     \* per card: what its load_colors runs did

vars == <<players, cards, registry, files, pc, appeared, appended, art_events,
          theming>>

Idle == [at |-> "idle", card |-> 0]

\* The Player object after lines 35-38: fields set, both handlers
\* connected, the Gtk.Revealer part not yet initialised.
NewPlayer(s) ==
    [_player |-> s,
     _colors_path |-> ColorsPath(players[s].desktop_entry),
     initialized |-> FALSE,
     reveal_child |-> FALSE,
     parent |-> FALSE,
     icon |-> "unset",
     play_icon |-> "unset",
     scale_value |-> 0,
     scale_max |-> 0,
     scale_visible |-> FALSE,
     timeout |-> -1]

\* initial: how the load_colors call of __init__ ended; runs: load_colors
\* calls so far; notifies: "notify::art-url" deliveries to the card's
\* handler; the rest describes the latest run: registrations of the card's
\* path before and after it, whether remove_css raised and was swallowed,
\* and the exception that left load_colors.
NewTheming ==
    [initial |-> "pending", runs |-> 0, notifies |-> 0, swallowed |-> FALSE,
     before |-> 0, after |-> 0, raised |-> "none"]

\* One load_colors run, with result r on registry reg, recorded in the
\* card's theming entry.
Recorded(th, reg, path, r) ==
    [initial |-> IF th.initial # "pending" THEN th.initial
                 ELSE IF r.raised = "none" THEN "done" ELSE "failed",
     runs |-> th.runs + 1,
     notifies |-> th.notifies,
     swallowed |-> r.swallowed,
     before |-> Len(reg[path]),
     after |-> Len(r.reg[path]),
     raised |-> r.raised]

\* playback_status -> icon name (lines 92-97)
PlayIcon(value) ==
    IF value = "Playing" THEN "media-playback-pause-symbolic"
    ELSE "media-playback-start-symbolic"

\* super().__init__(...), lines 41-157: the revealer is built hidden, the
\* icon label is computed once, the bound properties take the player's
\* current values.
\* Variant: reveal_child=True passed to the constructor.
SuperInitRevealed(card, p) ==
    [card EXCEPT !.initialized = TRUE,
                 !.reveal_child = TRUE,
                 !.icon = GetPlayerIcon(p.desktop_entry, p.track_id),
                 !.play_icon = PlayIcon(p.playback_status),
                 !.scale_value = p.position,
                 !.scale_max = p.length,
                 !.scale_visible = ScaleVisible(p.position)]
\* As in the source.
SuperInit(card, p) ==
    [card EXCEPT !.initialized = TRUE,
                 !.reveal_child = FALSE,
                 !.icon = GetPlayerIcon(p.desktop_entry, p.track_id),
                 !.play_icon = PlayIcon(p.playback_status),
                 !.scale_value = p.position,
                 !.scale_max = p.length,
                 !.scale_visible = ScaleVisible(p.position)]

\* Player.destroy on an initialised card: hide, then schedule unparent.
\* Variant: unparent called at once, no timeout.
DestroyNow(card) ==
    [card EXCEPT !.reveal_child = FALSE, !.parent = FALSE]
\* As in the source, lines 170-171.
Destroy(card) ==
    [card EXCEPT !.reveal_child = FALSE, !.timeout = TransitionDuration]

\* ------------------------------------------------- add_player, by statement
\* mpris emits "player_added" with source s: add_player starts, Player(obj)
\* runs lines 35-38.
PlayerAdded(s) ==
    /\ pc = Idle
    /\ players[s].running
    /\ Len(cards) < MaxCards
    /\ cards' = Append(cards, NewPlayer(s))
    /\ theming' = Append(theming, NewTheming)
    /\ appeared' = appeared + 1
    /\ pc' = [at |-> "load_colors", card |-> Len(cards) + 1]
    /\ UNCHANGED <<players, registry, files, appended, art_events>>

\* line 39: the initial load_colors.  An exception leaves __init__ and
\* add_player: the object stays connected to its player but is never built
\* nor appended.
InitLoadColors ==
    /\ pc.at = "load_colors"
    /\ LET i == pc.card
           c == cards[i]
           r == LoadColors(players[c._player], c._colors_path, registry, files)
       IN  /\ registry' = r.reg
           /\ files' = r.fs
           /\ theming' = [theming EXCEPT
                  ![i] = Recorded(@, registry, c._colors_path, r)]
           /\ pc' = IF r.raised = "none"
                    THEN [at |-> "super", card |-> i] ELSE Idle
    /\ UNCHANGED <<players, cards, appeared, appended, art_events>>

\* lines 41-157
InitSuper ==
    /\ pc.at = "super"
    /\ cards' = [cards EXCEPT
           ![pc.card] = SuperInit(@, players[@._player])]
    /\ pc' = [at |-> "append", card |-> pc.card]
    /\ UNCHANGED <<players, registry, files, appeared, appended, art_events, theming>>

\* line 199: box.append(player).  Variant: no append when a card of the
\* same player is already a child.
BoxAppendUnlessPresent ==
    /\ pc.at = "append"
    /\ LET dup == \E j \in 1..Len(cards) :
                      /\ j # pc.card
                      /\ cards[j]._player = cards[pc.card]._player
                      /\ cards[j].parent
       IN  /\ cards' = [cards EXCEPT ![pc.card].parent = ~dup]
           /\ appended' = IF dup THEN appended ELSE appended + 1
    /\ pc' = [at |-> "reveal", card |-> pc.card]
    /\ UNCHANGED <<players, registry, files, appeared, art_events, theming>>
\* As in the source.
BoxAppend ==
    /\ pc.at = "append"
    /\ cards' = [cards EXCEPT ![pc.card].parent = TRUE]
    /\ appended' = appended + 1
    /\ pc' = [at |-> "reveal", card |-> pc.card]
    /\ UNCHANGED <<players, registry, files, appeared, art_events, theming>>

\* line 200: player.set_reveal_child(True)
Reveal ==
    /\ pc.at = "reveal"
    /\ cards' = [cards EXCEPT ![pc.card].reveal_child = TRUE]
    /\ pc' = Idle
    /\ UNCHANGED <<players, registry, files, appeared, appended, art_events, theming>>

\* ------------------------------------------------------ player signals
\* The "notify::art-url" handlers of the cards of source s, run in
\* connection order from card i on; an exception in one handler is reported
\* by the main loop and the next handler still runs.
RECURSIVE RefreshFrom(_, _, _, _, _)
RefreshFrom(i, s, reg, fs, th) ==
    IF i > Len(cards) THEN [reg |-> reg, fs |-> fs, th |-> th]
    ELSE IF cards[i]._player # s THEN RefreshFrom(i + 1, s, reg, fs, th)
    ELSE LET c == cards[i]
             r == LoadColors(players'[s], c._colors_path, reg, fs)
         IN  RefreshFrom(i + 1, s, r.reg, r.fs,
                 [th EXCEPT ![i] = Recorded(@, reg, c._colors_path, r)])

\* Variant: one load_colors per notification, for the first card only.
RefreshFirstOnly(s, reg, fs, th) ==
    LET is == {i \in 1..Len(cards) : cards[i]._player = s}
    IN  IF is = {} THEN [reg |-> reg, fs |-> fs, th |-> th]
        ELSE LET i == CHOOSE j \in is : \A k \in is : j <= k
                 c == cards[i]
                 r == LoadColors(players'[s], c._colors_path, reg, fs)
             IN  [reg |-> r.reg, fs |-> r.fs,
                  th |-> [th EXCEPT ![i] = Recorded(@, reg, c._colors_path, r)]]
\* The handlers line 38 connected to source s: one load_colors per card.
OnArtUrlNotify(s, reg, fs, th) == RefreshFrom(1, s, reg, fs, th)

\* The service sets art_url of source s to a and notifies.
ArtChanged(s, a) ==
    /\ pc = Idle
    /\ players[s].running
    /\ art_events < MaxArtEvents
    /\ a # players[s].art_url
    /\ players' = [players EXCEPT ![s].art_url = a]
    /\ art_events' = art_events + 1
    /\ LET r == OnArtUrlNotify(s, registry, files, theming)
       IN  /\ registry' = r.reg
           /\ files' = r.fs
           /\ theming' = [i \in 1..Len(theming) |->
                  IF cards[i]._player = s
                  THEN [r.th[i] EXCEPT !.notifies = @ + 1] ELSE r.th[i]]
    /\ UNCHANGED <<cards, pc, appeared, appended>>

\* The service updates position of source s: the Scale's value and visible
\* bindings of every built card of s re-evaluate.
PositionChanged(s, v) ==
    /\ pc = Idle
    /\ players[s].running
    /\ v # players[s].position
    /\ players' = [players EXCEPT ![s].position = v]
    /\ cards' = [i \in 1..Len(cards) |->
           IF cards[i]._player = s /\ cards[i].initialized
           THEN [cards[i] EXCEPT !.scale_value = v,
                                 !.scale_visible = ScaleVisible(v)]
           ELSE cards[i]]
    /\ UNCHANGED <<registry, files, pc, appeared, appended, art_events, theming>>

LengthChanged(s, v) ==
    /\ pc = Idle
    /\ players[s].running
    /\ v # players[s].length
    /\ players' = [players EXCEPT ![s].length = v]
    /\ cards' = [i \in 1..Len(cards) |->
           IF cards[i]._player = s /\ cards[i].initialized
           THEN [cards[i] EXCEPT !.scale_max = v]
           ELSE cards[i]]
    /\ UNCHANGED <<registry, files, pc, appeared, appended, art_events, theming>>

StatusChanged(s, v) ==
    /\ pc = Idle
    /\ players[s].running
    /\ v # players[s].playback_status
    /\ players' = [players EXCEPT ![s].playback_status = v]
    /\ cards' = [i \in 1..Len(cards) |->
           IF cards[i]._player = s /\ cards[i].initialized
           THEN [cards[i] EXCEPT !.play_icon = PlayIcon(v)]
           ELSE cards[i]]
    /\ UNCHANGED <<registry, files, pc, appeared, appended, art_events, theming>>

\* track_id is read once, by get_player_icon; nothing is bound to it.
TrackIdChanged(s, t) ==
    /\ pc = Idle
    /\ players[s].running
    /\ t # players[s].track_id
    /\ players' = [players EXCEPT ![s].track_id = t]
    /\ UNCHANGED <<cards, registry, files, pc, appeared, appended, art_events, theming>>

\* Source s emits "closed": each connected card runs destroy().  On an
\* object whose Revealer part was never initialised set_reveal_child
\* raises and nothing is scheduled.
Closed(s) ==
    /\ pc = Idle
    /\ players[s].running
    /\ players' = [players EXCEPT ![s].running = FALSE]
    /\ cards' = [i \in 1..Len(cards) |->
           IF cards[i]._player = s /\ cards[i].initialized
           THEN Destroy(cards[i]) ELSE cards[i]]
    /\ UNCHANGED <<registry, files, pc, appeared, appended, art_events, theming>>

\* ------------------------------------------------------------- timers
\* One clock tick: every pending Utils.Timeout comes one tick closer.  A
\* due timeout is dispatched before the clock advances further.
Tick ==
    /\ pc = Idle
    /\ \E i \in 1..Len(cards) : cards[i].timeout > 0
    /\ \A i \in 1..Len(cards) : cards[i].timeout # 0
    /\ cards' = [i \in 1..Len(cards) |->
           IF cards[i].timeout > 0
           THEN [cards[i] EXCEPT !.timeout = @ - 1] ELSE cards[i]]
    /\ UNCHANGED <<players, registry, files, pc, appeared, appended, art_events, theming>>

\* The Utils.Timeout of card i fires: super().unparent()
Timeout(i) ==
    /\ pc = Idle
    /\ cards[i].timeout = 0
    /\ cards' = [cards EXCEPT ![i].parent = FALSE, ![i].timeout = -1]
    /\ UNCHANGED <<players, registry, files, pc, appeared, appended, art_events, theming>>

\* ------------------------------------------------------ specifications
PlayerInit(d, t, a, running) ==
    [desktop_entry |-> d, track_id |-> t, art_url |-> a,
     position |-> -1, length |-> -1, playback_status |-> "Paused",
     running |-> running]

InitRest ==
    /\ cards = <<>>
    /\ registry = [p \in Paths |-> <<>>]
    /\ files = [p \in Paths |-> "absent"]
    /\ pc = Idle
    /\ appeared = 0
    /\ appended = 0
    /\ art_events = 0
    /\ theming = <<>>

\* Two running players, of one desktop entry or of two; the container has
\* just been set up.
Init ==
    /\ \E d1 \in {firefox, mpv} :
          players = [s \in Sources |->
              IF s = 1 THEN PlayerInit(d1, TrackPlain, NoArt, TRUE)
              ELSE PlayerInit(mpv, TrackPlain, NoArt, TRUE)]
    /\ InitRest

Next ==
    \/ \E s \in Sources : PlayerAdded(s)
    \/ InitLoadColors
    \/ InitSuper
    \/ BoxAppend
    \/ Reveal
    \/ \E s \in Sources, a \in ArtUrls : ArtChanged(s, a)
    \/ \E s \in Sources : Closed(s)
    \/ Tick
    \/ \E i \in 1..Len(cards) : Timeout(i)

Spec == Init /\ [][Next]_vars

\* The GLib main loop runs a started handler to its end, keeps its clock
\* running and dispatches every due timeout.
LiveSpec ==
    /\ Spec
    /\ WF_vars(InitLoadColors)
    /\ WF_vars(InitSuper)
    /\ WF_vars(BoxAppend)
    /\ WF_vars(Reveal)
    /\ WF_vars(Tick)
    /\ WF_vars(\E i \in 1..Len(cards) : Timeout(i))

\* One running player whose properties all change; no player closes.
InitView ==
    /\ \E d \in DesktopEntries, t \in TrackIds :
          players = [s \in Sources |->
              IF s = 1 THEN PlayerInit(d, t, NoArt, TRUE)
              ELSE PlayerInit(mpv, TrackPlain, NoArt, FALSE)]
    /\ InitRest

NextView ==
    \/ \E s \in Sources : PlayerAdded(s)
    \/ InitLoadColors
    \/ InitSuper
    \/ BoxAppend
    \/ Reveal
    \/ \E s \in Sources, a \in ArtUrls : ArtChanged(s, a)
    \/ \E s \in Sources, v \in Positions : PositionChanged(s, v)
    \/ \E s \in Sources, v \in Lengths : LengthChanged(s, v)
    \/ \E s \in Sources, v \in Statuses : StatusChanged(s, v)
    \/ \E s \in Sources, t \in TrackIds : TrackIdChanged(s, t)

SpecView == InitView /\ [][NextView]_vars

\* ================================================================ claims
CardIds == 1..Len(cards)
PlayerOf(i) == players[cards[i]._player]
\* Card i is past the load_colors call of its __init__.
PastInitialTheming(i) == ~(pc.at = "load_colors" /\ pc.card = i)

\* C1: in every reachable state every stylesheet path holds at most one
\* registration, and every load_colors run leaves at most one registration
\* of its card's path: the old one is removed before the new one is applied.
C1_AtMostOneRegistration ==
    /\ \A p \in Paths : Len(registry[p]) <= 1
    /\ \A i \in CardIds : theming[i].after <= 1

\* C1 witness: a refresh ran on a path that was registered and left it
\* registered once.
C1_Witness ==
    \E i \in CardIds :
        /\ theming[i].runs >= 2
        /\ theming[i].before = 1
        /\ theming[i].after = 1
        /\ Len(registry[cards[i]._colors_path]) = 1

C10_FailedRefreshLeavesUnregistered ==
    \A i \in CardIds :
        (theming[i].runs >= 1 /\ theming[i].raised = "ImageError") =>
            theming[i].after = 0

\* C10 witness: a refresh of an applied stylesheet failed and the path is
\* now unregistered.
C10_Witness ==
    \E i \in CardIds :
        /\ theming[i].raised = "ImageError"
        /\ theming[i].before = 1
        /\ theming[i].after = 0
        /\ registry[cards[i]._colors_path] = <<>>

\* C5: a card whose reveal state is shown has completed its initial
\* theming, is built and is a child of the container; a card is built only
\* after its initial theming completed, is appended only once built, and is
\* still hidden when it is appended.
C5_ThemedBeforeRevealed ==
    \A i \in CardIds :
        /\ cards[i].reveal_child =>
               /\ theming[i].initial = "done"
               /\ cards[i].initialized
               /\ cards[i].parent
        /\ cards[i].initialized => theming[i].initial = "done"
        /\ cards[i].parent => cards[i].initialized
        /\ (pc.card = i /\ pc.at = "super") =>
               /\ theming[i].initial = "done"
               /\ theming[i].after = 1
               /\ ~cards[i].initialized
        /\ (pc.card = i /\ pc.at = "append") =>
               ~cards[i].parent /\ ~cards[i].reveal_child
        /\ (pc.card = i /\ pc.at = "reveal") =>
               cards[i].parent /\ ~cards[i].reveal_child

\* C5 witness: a card is shown, inside the container, themed.
C5_Witness ==
    \E i \in CardIds :
        /\ cards[i].reveal_child
        /\ cards[i].parent
        /\ theming[i].initial = "done"
        /\ Len(registry[cards[i]._colors_path]) = 1

FailedConstructions ==
    Cardinality({i \in CardIds : theming[i].initial = "failed"})

\* C6 as stated: whenever no handler is running, the cards appended equal
\* the "player_added" signals delivered.
C6_AppendedEqualsAppeared ==
    pc = Idle => appended = appeared

\* C6 amended: every "player_added" signal creates one Player object, with
\* no de-duplication; whenever no handler is running the cards appended
\* equal the signals delivered minus those whose initial load_colors
\* raised; and a card that was appended and is no longer a child belongs
\* to a player that has closed.
C6_AppendedEqualsCompleted ==
    /\ Len(cards) = appeared
    /\ pc = Idle => appended = appeared - FailedConstructions
    /\ \A i \in CardIds :
           (PastInitialTheming(i) /\ theming[i].initial = "done"
                /\ pc.card # i /\ ~cards[i].parent)
               => ~PlayerOf(i).running

\* C6 witness: two signals of one source; the first construction failed
\* and appended nothing, the second appended its card.
C6_Witness ==
    /\ pc = Idle
    /\ \E i, j \in CardIds :
           /\ i # j
           /\ cards[i]._player = cards[j]._player
           /\ theming[i].initial = "failed"
           /\ ~cards[i].parent
           /\ cards[j].parent
    /\ appeared = 2
    /\ appended = 1

\* C7: cards of distinct desktop entries have distinct stylesheet paths,
\* and a step changes the registry only at the paths of the cards whose
\* load_colors ran in that step.
C7_PathsDistinct ==
    \A i, j \in CardIds :
        PlayerOf(i).desktop_entry # PlayerOf(j).desktop_entry
            => cards[i]._colors_path # cards[j]._colors_path
C7_OnlyOwnPath ==
    \A p \in DOMAIN registry :
        registry'[p] # registry[p] =>
            \E i \in 1..Len(cards) :
                /\ cards[i]._colors_path = p
                /\ theming'[i].runs = theming[i].runs + 1
C7_RefreshTouchesOwnPath ==
    /\ [](C7_PathsDistinct)
    /\ [][C7_OnlyOwnPath]_vars

\* C7 witness: two cards of distinct desktop entries, both applied, one of
\* them refreshed again after the other was applied.
C7_Witness ==
    \E i, j \in CardIds :
        /\ PlayerOf(i).desktop_entry # PlayerOf(j).desktop_entry
        /\ theming[i].runs >= 2
        /\ theming[i].raised = "none"
        /\ theming[j].runs = 1
        /\ Len(registry[cards[i]._colors_path]) = 1
        /\ Len(registry[cards[j]._colors_path]) = 1
        /\ registry[cards[i]._colors_path][1].art_url = "art-a.png"
        /\ registry[cards[j]._colors_path][1].art_url = MEDIA_ART_FALLBACK

\* C2, step by step.  Closing: the step in which a card's player closes
\* hides the card at once, keeps it a child and starts a timer of one
\* transition duration.
C2_ClosedHidesAtOnce ==
    \A i \in 1..Len(cards) :
        (PlayerOf(i).running /\ ~players'[cards[i]._player].running
             /\ cards[i].parent)
            => /\ ~cards'[i].reveal_child
               /\ cards'[i].parent
               /\ cards'[i].timeout = TransitionDuration
\* Waiting: a card is unparented only by its own timer, when that timer has
\* run all of its TransitionDuration ticks; a running timer is never
\* cancelled or restarted, it only counts down.
C2_UnparentedWhenDue ==
    \A i \in 1..Len(cards) :
        /\ (cards[i].parent /\ ~cards'[i].parent) => cards[i].timeout = 0
        /\ cards[i].timeout > 0 =>
               /\ cards'[i].parent
               /\ cards'[i].timeout \in {cards[i].timeout, cards[i].timeout - 1}
        /\ cards[i].timeout = 0 => cards'[i].timeout \in {0, -1}
\* While the timer runs, the card is hidden and still a child.
C2_ChildWhileTimerRuns ==
    \A i \in CardIds :
        cards[i].timeout >= 0 => cards[i].parent /\ ~cards[i].reveal_child
\* Every card of a closed player ends outside the container.
C2_EventuallyRemoved ==
    \A i \in 1..MaxCards :
        (IF i <= Len(cards) THEN cards[i].timeout >= 0 ELSE FALSE)
            ~> (IF i <= Len(cards)
                THEN cards[i].timeout = -1 /\ ~cards[i].parent ELSE FALSE)

\* C2: when a player closes, each of its cards is hidden in that step,
\* stays a child of the container for exactly TransitionDuration ticks, is
\* then unparented, and nothing cancels the removal.
C2_CloseThenUnparent ==
    /\ [][C2_ClosedHidesAtOnce]_vars
    /\ [][C2_UnparentedWhenDue]_vars
    /\ [](C2_ChildWhileTimerRuns)
    /\ C2_EventuallyRemoved

\* C2 witness: a card of a closed player has been removed from the
\* container after having been shown in it.
C2_Witness ==
    \E i \in CardIds :
        /\ ~PlayerOf(i).running
        /\ cards[i].initialized
        /\ ~cards[i].parent
        /\ ~cards[i].reveal_child
        /\ cards[i].timeout = -1
        /\ pc = Idle

\* C3, in states: each card has run load_colors once in __init__ and once
\* per "notify::art-url" delivered to it since.
C3_RunsMatchNotifies ==
    \A i \in CardIds :
        PastInitialTheming(i) => theming[i].runs = 1 + theming[i].notifies
\* C3, in steps: load_colors runs only in __init__ and in a step that
\* changes the art_url of the card's player, once per such step; a run
\* that ends normally leaves at the card's path the stylesheet rendered
\* from the player's art of that moment, and that stylesheet applied.
C3_OnlyArtTriggers ==
    \A i \in 1..Len(cards) :
        theming'[i].runs # theming[i].runs =>
            /\ theming'[i].runs = theming[i].runs + 1
            /\ \/ pc.at = "load_colors" /\ pc.card = i
               \/ players'[cards[i]._player].art_url # PlayerOf(i).art_url
            /\ theming'[i].raised = "none" =>
                   LET art == players'[cards[i]._player].art_url
                       path == cards[i]._colors_path
                   IN  /\ files'[path].art_url =
                              (IF art = NoArt THEN MEDIA_ART_FALLBACK ELSE art)
                       /\ registry'[path] = <<files'[path]>>

\* C3: theming refreshes of a card = 1 + art-changed notifications of its
\* player, one refresh per notification, none for any other property.
C3_OneRefreshPerArtChange ==
    /\ [](C3_RunsMatchNotifies)
    /\ [][C3_OnlyArtTriggers]_vars

\* C3 witness: after two art changes and a position, length and status
\* update, a card has run load_colors three times.
C3_Witness ==
    \E i \in CardIds :
        /\ theming[i].notifies = 2
        /\ theming[i].runs = 3
        /\ PlayerOf(i).position = 42
        /\ PlayerOf(i).length = 180
        /\ PlayerOf(i).playback_status = "Playing"
        /\ \E j \in CardIds : j # i /\ theming[j].runs = 3

\* The glyph the claim gives for a desktop entry and a track identifier.
C8_Glyph(d, t) ==
    CASE d = spotify -> "glyph-spotify"
      [] d = firefox -> "glyph-firefox"
      [] d \notin {spotify, firefox} /\ t \in {TrackChrome, TrackChromium}
             -> "glyph-chrome"
      [] d \notin {spotify, firefox} /\ t = TrackPlain -> ""
\* The step that builds a card sets its glyph from the player's desktop
\* entry and track identifier of that moment; no later step changes it.
C8_SetOnceAtCreation ==
    \A i \in 1..Len(cards) :
        /\ (~cards[i].initialized /\ cards'[i].initialized) =>
               cards'[i].icon =
                   C8_Glyph(PlayerOf(i).desktop_entry, PlayerOf(i).track_id)
        /\ cards[i].initialized => cards'[i].icon = cards[i].icon

\* C8: the icon glyph is the stated function of (desktop_entry, track_id)
\* at card creation and does not follow later track_id changes.
C8_IconFixedAtCreation == [][C8_SetOnceAtCreation]_vars

\* C8 witness: a card of a player that is neither firefox nor spotify
\* shows the chrome glyph although the player's track identifier no longer
\* names chrome.
C8_Witness ==
    \E i \in CardIds :
        /\ cards[i].initialized
        /\ cards[i].icon = "glyph-chrome"
        /\ PlayerOf(i).desktop_entry = mpv
        /\ PlayerOf(i).track_id = TrackPlain

\* C9: on every built card the scrubber is hidden exactly when the
\* player's latest position is -1, and its value and maximum are the
\* player's latest position and length.
C9_ScrubberFollowsPosition ==
    \A i \in CardIds :
        cards[i].initialized =>
            /\ (PlayerOf(i).position = -1 => ~cards[i].scale_visible)
            /\ (PlayerOf(i).position # -1 => cards[i].scale_visible)
            /\ cards[i].scale_value = PlayerOf(i).position
            /\ cards[i].scale_max = PlayerOf(i).length

\* C9 witness: a card built while the position was -1 now shows the
\* scrubber at 42 of 180, with no theming run besides the initial one.
C9_Witness ==
    \E i \in CardIds :
        /\ cards[i].initialized
        /\ cards[i].scale_visible
        /\ cards[i].scale_value = 42
        /\ cards[i].scale_max = 180
        /\ theming[i].runs = 1

====
